---- MODULE Spec2Model ----
(***************************************************************************)
(* Model of the authentication core of the ReadingList backend:           *)
(* token codec (jwt_service.py, token.py), cookie transport (cookie.py),  *)
(* auth service (auth.py) and current-user resolver                        *)
(* (get_current_user.py, get_services.py) over the users table.           *)
(***************************************************************************)
EXTENDS Integers, Sequences, FiniteSets, Bags, TLC

VARIABLES users, nextId, nextJti, now, ticks, last, probe, regs, db

vars == <<users, nextId, nextJti, now, ticks, last, probe, regs, db>>

----------------------------------------------------------------------------
(* Bounds of the model.                                                    *)

\* number of rows the users table may hold
MaxUsers == 2
\* number of clock advances
MaxTicks == 1
\* number of token ids (uuid4 values) handed out
MaxJti == 4

(* Program constants.                                                      *)

\* AuthJWT.access_token_expire_minutes
access_token_expire_minutes == 15
\* AuthJWT.refresh_token_expire_days
refresh_token_expire_days == 7
\* timedelta(days=...) expressed in minutes, the unit of the model's clock
MinutesPerDay == 1440
\* CookiesConf.max_age
cookie_max_age == 604800

HTTP_200 == 200
HTTP_204 == 204
HTTP_400 == 400
HTTP_401 == 401
HTTP_500 == 500

----------------------------------------------------------------------------
(* Input domains.                                                          *)

Emails == {"a@x.io", "b@x.io"}
Names == {"Ann", "Bob"}
\* passwords a client may type; the first is the one accounts are created with
Passwords == {"Strong1!aa", "Other2?bb"}
RegisterPasswords == {"Strong1!aa"}
\* subjects of the tokens presented: ids the users table may or may not hold
SubIds == {1, 2}

\* str(user.id) / int(payload.sub)
StrOf(n) == <<"str", n>>
IntOf(s) == s[2]

Merge(base, upd) ==
    [k \in (DOMAIN base) \cup (DOMAIN upd) |->
        IF k \in DOMAIN upd THEN upd[k] ELSE base[k]]

----------------------------------------------------------------------------
(* Password hasher (services/auth/password.py).                            *)

hash_password(password) == [alg |-> "bcrypt", digest_of |-> password]

validate_password(password, hashed_password) ==
    hashed_password.digest_of = password

----------------------------------------------------------------------------
(* Token codec.                                                            *)

TokenTypes == {"access", "refresh"}

NoPayload == [type |-> "none"]

\* a cookie value is absent, a string that is no JWT, or a signed JWT
AbsentCookie == [kind |-> "absent", sig |-> FALSE, payload |-> NoPayload]
GarbageToken == [kind |-> "garbage", sig |-> FALSE, payload |-> NoPayload]

encode_jwt(payload, t, ttl, jti) ==
    [kind |-> "jwt",
     sig |-> TRUE,
     payload |-> Merge(payload, [exp |-> t + ttl, iat |-> t, jti |-> jti])]

\* a decoder for which a token is still good at its exp
decode_jwt_valid_at_exp(token, t) ==
    IF token.kind = "jwt" /\ token.sig /\ token.payload["exp"] >= t
    THEN [ok |-> TRUE, payload |-> token.payload]
    ELSE [ok |-> FALSE, payload |-> NoPayload]

\* jwt.decode: signature, then exp (expired once exp <= now)
decode_jwt(token, t) ==
    IF token.kind = "jwt" /\ token.sig /\ token.payload["exp"] > t
    THEN [ok |-> TRUE, payload |-> token.payload]
    ELSE [ok |-> FALSE, payload |-> NoPayload]

AccessTtl == access_token_expire_minutes
RefreshTtl == refresh_token_expire_days * MinutesPerDay

\* a create_jwt that does not write the token type
create_jwt_without_type(token_type, token_data, t, ttl, jti) ==
    encode_jwt(token_data, t, ttl, jti)

create_jwt(token_type, token_data, t, ttl, jti) ==
    encode_jwt(Merge([type |-> token_type], token_data), t, ttl, jti)

\* pydantic models: required fields; extra keys are ignored
JWTPayloadRefreshFields == {"sub"}
JWTPayloadAccessFields == {"sub", "display_name", "email"}

Validates(fields, kwargs) == fields \subseteq DOMAIN kwargs

ModelOf(fields, kwargs) == [k \in fields |-> kwargs[k]]

\* token.py: create_access_token builds JWTPayloadAccess from these keywords
AccessTokenKwargs(user) ==
    [sub |-> StrOf(user.id), display_name |-> user.display_name]

RefreshTokenKwargs(user_id) == [sub |-> StrOf(user_id)]

\* [ok, token]; ok = FALSE is pydantic's ValidationError
create_access_token(user, t, jti) ==
    LET kwargs == AccessTokenKwargs(user) IN
    IF Validates(JWTPayloadAccessFields, kwargs)
    THEN [ok |-> TRUE,
          token |-> create_jwt("access", ModelOf(JWTPayloadAccessFields, kwargs),
                               t, AccessTtl, jti)]
    ELSE [ok |-> FALSE, token |-> AbsentCookie]

create_refresh_token(user_id, t, jti) ==
    LET kwargs == RefreshTokenKwargs(user_id) IN
    IF Validates(JWTPayloadRefreshFields, kwargs)
    THEN [ok |-> TRUE,
          token |-> create_jwt("refresh", ModelOf(JWTPayloadRefreshFields, kwargs),
                               t, RefreshTtl, jti)]
    ELSE [ok |-> FALSE, token |-> AbsentCookie]

----------------------------------------------------------------------------
(* Cookie transport.                                                       *)

\* CookieTransport() built from CookiesConf
cookie_transport ==
    [cookie_name_access_token |-> "access_token",
     cookie_name_refresh_token |-> "refresh_token",
     cookie_max_age |-> cookie_max_age,
     cookie_secure |-> TRUE,
     cookie_httponly |-> TRUE,
     cookie_samesite_access_token |-> "lax",
     cookie_samesite_refresh_token |-> "strict"]

EmptyValue == [kind |-> "empty", sig |-> FALSE, payload |-> NoPayload]

\* Response.set_cookie
set_cookie(key, value, max_age, secure, httponly, samesite) ==
    [key |-> key, value |-> value, max_age |-> max_age, path |-> "/",
     secure |-> secure, httponly |-> httponly, samesite |-> samesite]

\* a deletion that leaves samesite at the default of Response.delete_cookie
delete_cookie_default_samesite(key, secure, httponly, samesite) ==
    set_cookie(key, EmptyValue, 0, secure, httponly, "lax")

\* Response.delete_cookie: an empty value that expires at once
delete_cookie(key, secure, httponly, samesite) ==
    set_cookie(key, EmptyValue, 0, secure, httponly, samesite)

\* a logout that forgets the refresh cookie
set_logout_cookies_access_only(ct) ==
    << delete_cookie(ct.cookie_name_access_token, ct.cookie_secure,
                     ct.cookie_httponly, ct.cookie_samesite_access_token) >>

set_login_cookies(ct, access_token, refresh_token) ==
    << set_cookie(ct.cookie_name_access_token, access_token, ct.cookie_max_age,
                  ct.cookie_secure, ct.cookie_httponly,
                  ct.cookie_samesite_access_token),
       set_cookie(ct.cookie_name_refresh_token, refresh_token, ct.cookie_max_age,
                  ct.cookie_secure, ct.cookie_httponly,
                  ct.cookie_samesite_refresh_token) >>

set_logout_cookies(ct) ==
    << delete_cookie(ct.cookie_name_access_token, ct.cookie_secure,
                     ct.cookie_httponly, ct.cookie_samesite_access_token),
       delete_cookie(ct.cookie_name_refresh_token, ct.cookie_secure,
                     ct.cookie_httponly, ct.cookie_samesite_refresh_token) >>

----------------------------------------------------------------------------
(* Outcome of one request.                                                 *)
(*   cookies:   Set-Cookie headers of the response that is delivered       *)
(*   discarded: cookies written to a Response object that is dropped      *)
(*   lookups:   reads of the users table by id                             *)
(*   minted:    tokens signed                                              *)

NoIdentity == [id |-> 0, email |-> "", display_name |-> ""]

Ok(status, identity, cookies, lookups, minted) ==
    [result |-> "ok", error |-> "none", status |-> status, detail |-> "",
     identity |-> identity, cookies |-> cookies, discarded |-> <<>>,
     lookups |-> lookups, minted |-> minted, committed |-> FALSE]

\* AppErrors(status_code, detail): an HTTPException without headers
AppError(error, status, detail, discarded, lookups) ==
    [result |-> "error", error |-> error, status |-> status, detail |-> detail,
     identity |-> NoIdentity, cookies |-> <<>>, discarded |-> discarded,
     lookups |-> lookups, minted |-> 0, committed |-> FALSE]

unauthorized(detail, discarded, lookups) ==
    AppError("Unauthorized", HTTP_401, detail, discarded, lookups)

bad_request(detail) == AppError("BadRequest", HTTP_400, detail, <<>>, 0)

\* an exception that is no HTTPException reaches the client as a 500
Unhandled(error, lookups) == AppError(error, HTTP_500, "", <<>>, lookups)

----------------------------------------------------------------------------
(* Users table (db/models/user.py, db/services_db/user.py).                *)

get_by_email(store, email) == {u \in store : u.email = email}

get_by_id(store, user_id) == {u \in store : u.id = user_id}

\* a users table whose email column has no unique index
user_add_without_unique_index(store, user_data, hashed_password, id) ==
    [ok |-> TRUE,
     users |-> store \cup {[id |-> id,
                            email |-> user_data.email,
                            display_name |-> user_data.display_name,
                            hashed_password |-> hashed_password]}]

\* UserServiceDB.add: INSERT and flush; users.email is unique.
\* [ok, users]; ok = FALSE is the IntegrityError of the unique index.
user_add(store, user_data, hashed_password, id) ==
    IF get_by_email(store, user_data.email) # {}
    THEN [ok |-> FALSE, users |-> store]
    ELSE [ok |-> TRUE,
          users |-> store \cup {[id |-> id,
                                 email |-> user_data.email,
                                 display_name |-> user_data.display_name,
                                 hashed_password |-> hashed_password]}]

----------------------------------------------------------------------------
(* Auth service (services/auth/auth.py).                                   *)

\* __check_email without its lookup: it never raises
check_email_never_raises(store, email) == FALSE

\* TRUE when __check_email raises bad_request
check_email(store, email) == get_by_email(store, email) # {}

\* [out, users, nextId]
register(user_data, store, nid) ==
    IF check_email(store, user_data.email)
    THEN [out |-> [bad_request("email already registered") EXCEPT !.lookups = 1],
          users |-> store, nextId |-> nid]
    ELSE LET hashed_password == hash_password(user_data.password)
             added == user_add(store, user_data, hashed_password, nid)
         IN IF added.ok
            THEN [out |-> [Ok(HTTP_200, NoIdentity, <<>>, 1, 0)
                             EXCEPT !.committed = TRUE],
                  users |-> added.users, nextId |-> nid + 1]
            ELSE \* the failed INSERT is rolled back; its sequence value is spent
                 [out |-> Unhandled("IntegrityError", 1),
                  users |-> store, nextId |-> nid + 1]

\* login that only tests whether the user exists
login_rejects_unknown_only(found, password) == found = {}

\* the condition under which login raises unauthorized
login_rejects(found, password) ==
    \/ found = {}
    \/ \E user \in found :
          validate_password(password, user.hashed_password) = FALSE

\* a login that tells an unknown email from a wrong password
login_names_unknown_user(credentials, store, t, jti_a, jti_r) ==
    LET found == get_by_email(store, credentials.email) IN
    IF found = {}
    THEN unauthorized("no user with this email", <<>>, 1)
    ELSE IF login_rejects(found, credentials.password)
    THEN unauthorized("wrong credentials (check login and password)", <<>>, 1)
    ELSE LET user == CHOOSE u \in found : TRUE
             access == create_access_token(user, t, jti_a)
             refresh == create_refresh_token(user.id, t, jti_r)
         IN IF ~access.ok \/ ~refresh.ok
            THEN Unhandled("ValidationError", 1)
            ELSE Ok(HTTP_204, NoIdentity,
                    set_login_cookies(cookie_transport, access.token, refresh.token),
                    1, 2)

login(credentials, store, t, jti_a, jti_r) ==
    LET found == get_by_email(store, credentials.email) IN
    IF login_rejects(found, credentials.password)
    THEN unauthorized("wrong credentials (check login and password)", <<>>, 1)
    ELSE LET user == CHOOSE u \in found : TRUE
             access == create_access_token(user, t, jti_a)
             refresh == create_refresh_token(user.id, t, jti_r)
         IN IF ~access.ok \/ ~refresh.ok
            THEN Unhandled("ValidationError", 1)
            ELSE Ok(HTTP_204, NoIdentity,
                    set_login_cookies(cookie_transport, access.token, refresh.token),
                    1, 2)

logout == Ok(HTTP_204, NoIdentity, set_logout_cookies(cookie_transport), 0, 0)

----------------------------------------------------------------------------
(* Current-user resolver (api/dependencies/get_current_user.py).           *)

\* a decoder that does not check expiry
decode_token_ignores_expiry(token_type, token, t) ==
    LET d == decode_jwt(token, 0)
        fields == IF token_type = "access"
                  THEN JWTPayloadAccessFields ELSE JWTPayloadRefreshFields
    IN IF d.ok
       THEN IF Validates(fields, d.payload)
            THEN [kind |-> "payload", payload |-> ModelOf(fields, d.payload)]
            ELSE [kind |-> "ValidationError", payload |-> NoPayload]
       ELSE IF token_type = "access"
            THEN [kind |-> "None", payload |-> NoPayload]
            ELSE [kind |-> "Unauthorized", payload |-> NoPayload]

\* kind: "payload" | "None" | "Unauthorized" | "ValidationError"
decode_token(token_type, token, t) ==
    LET d == decode_jwt(token, t)
        fields == IF token_type = "access"
                  THEN JWTPayloadAccessFields ELSE JWTPayloadRefreshFields
    IN IF d.ok
       THEN IF Validates(fields, d.payload)
            THEN [kind |-> "payload", payload |-> ModelOf(fields, d.payload)]
            ELSE [kind |-> "ValidationError", payload |-> NoPayload]
       ELSE IF token_type = "access"
            THEN [kind |-> "None", payload |-> NoPayload]
            ELSE [kind |-> "Unauthorized", payload |-> NoPayload]

\* __set_access_token_cookie: [ok, cookies] for the in-flight response
set_access_token_cookie(user, t, jti) ==
    LET new_access_token == create_access_token(user, t, jti)
        ct == cookie_transport
    IN IF new_access_token.ok
       THEN [ok |-> TRUE,
             cookies |-> << set_cookie(ct.cookie_name_access_token,
                                       new_access_token.token,
                                       ct.cookie_max_age, ct.cookie_secure,
                                       ct.cookie_httponly,
                                       ct.cookie_samesite_access_token) >>]
       ELSE [ok |-> FALSE, cookies |-> <<>>]

\* a rotation that commits its session after the lookup
refresh_access_token_commits(payload, store, t, jti) ==
    LET found == get_by_id(store, IntOf(payload["sub"])) IN
    IF found = {}
    THEN unauthorized("user not found", set_logout_cookies(cookie_transport), 1)
    ELSE [Unhandled("ValidationError", 1) EXCEPT !.committed = TRUE]

refresh_access_token(payload, store, t, jti) ==
    LET found == get_by_id(store, IntOf(payload["sub"])) IN
    IF found = {}
    THEN \* get_logout_response() builds a Response that nobody keeps
         unauthorized("user not found", set_logout_cookies(cookie_transport), 1)
    ELSE LET user == CHOOSE u \in found : TRUE
             set == set_access_token_cookie(user, t, jti)
         IN IF ~set.ok
            THEN Unhandled("ValidationError", 1)
            ELSE Ok(0, [id |-> IntOf(payload["sub"]),
                        email |-> user.email,
                        display_name |-> user.display_name],
                    set.cookies, 1, 1)

\* a resolver that re-reads the user on the fast path
get_user_by_token_rechecks_user(access_token, refresh_token, store, t, jti) ==
    LET payload == decode_token("access", access_token, t) IN
    IF payload.kind = "ValidationError"
    THEN Unhandled("ValidationError", 0)
    ELSE IF payload.kind = "payload"
    THEN IF get_by_id(store, IntOf(payload.payload["sub"])) = {}
         THEN unauthorized("user not found", <<>>, 1)
         ELSE Ok(0, [id |-> IntOf(payload.payload["sub"]),
                     email |-> payload.payload["email"],
                     display_name |-> payload.payload["display_name"]],
                 <<>>, 1, 0)
    ELSE LET payload_refresh == decode_token("refresh", refresh_token, t) IN
         IF payload_refresh.kind = "Unauthorized"
         THEN unauthorized("Invalid token", <<>>, 0)
         ELSE IF payload_refresh.kind = "ValidationError"
         THEN Unhandled("ValidationError", 0)
         ELSE IF payload_refresh.kind = "None"
         THEN unauthorized("Invalid refresh token", <<>>, 0)
         ELSE refresh_access_token(payload_refresh.payload, store, t, jti)

get_user_by_token(access_token, refresh_token, store, t, jti) ==
    LET payload == decode_token("access", access_token, t) IN
    IF payload.kind = "ValidationError"
    THEN Unhandled("ValidationError", 0)
    ELSE IF payload.kind = "payload"
    THEN Ok(0, [id |-> IntOf(payload.payload["sub"]),
                email |-> payload.payload["email"],
                display_name |-> payload.payload["display_name"]],
            <<>>, 0, 0)
    ELSE LET payload_refresh == decode_token("refresh", refresh_token, t) IN
         IF payload_refresh.kind = "Unauthorized"
         THEN unauthorized("Invalid token", <<>>, 0)
         ELSE IF payload_refresh.kind = "ValidationError"
         THEN Unhandled("ValidationError", 0)
         ELSE IF payload_refresh.kind = "None"
         THEN unauthorized("Invalid refresh token", <<>>, 0)
         ELSE refresh_access_token(payload_refresh.payload, store, t, jti)

\* get_current_user_service, then the route's call of get_user_by_token
current_user(access_token, refresh_token, store, t, jti) ==
    IF access_token.kind = "absent" \/ refresh_token.kind = "absent"
    THEN unauthorized("authentication required", <<>>, 0)
    ELSE get_user_by_token(access_token, refresh_token, store, t, jti)

----------------------------------------------------------------------------
(* Requests.                                                               *)

UserCreateSchemas ==
    [email : Emails, display_name : Names, password : RegisterPasswords]

UserLoginSchemas == [email : Emails, password : Passwords]

\* the claims a key holder can sign: the two payload shapes of schemas/auth.py
TokenData ==
    {[sub |-> StrOf(i)] : i \in SubIds}
    \cup {[sub |-> StrOf(i), display_name |-> "Ann", email |-> "a@x.io"] : i \in SubIds}

\* lifetime that token.py gives each token type
TtlOf(token_type) == IF token_type = "access" THEN AccessTtl ELSE RefreshTtl

\* tokens signed at time 0
SignedTokens ==
    {create_jwt(tt, td, 0, TtlOf(tt), 0) : tt \in TokenTypes, td \in TokenData}

\* a token whose signature does not verify
TamperedToken ==
    [create_jwt("refresh", [sub |-> StrOf(1)], 0, RefreshTtl, 0) EXCEPT !.sig = FALSE]

CookieValues == SignedTokens \cup {TamperedToken, GarbageToken, AbsentCookie}

NoInput == [none |-> TRUE]

\* the last request served: its input, the clock and the next token id when it
\* was served, and its outcome
Request(op, input, at, jti, out) ==
    [op |-> op, input |-> input, at |-> at, jti |-> jti, out |-> out]

\* the items, tags and item_tags tables with their id sequences
Db(items, tags, item_tags, next_item, next_tag) ==
    [items |-> items, tags |-> tags, item_tags |-> item_tags,
     next_item |-> next_item, next_tag |-> next_tag]

NoItems == Db({}, {}, EmptyBag, 1, 1)

\* nothing built outside a request, no registration in flight
NoProbe == [op |-> "none"]
NoRegs == <<>>

Init ==
    /\ users = {}
    /\ db = NoItems
    /\ nextId = 1
    /\ nextJti = 1
    /\ now = 0
    /\ ticks = 0
    /\ last = Request("none", NoInput, 0, 1, Ok(0, NoIdentity, <<>>, 0, 0))
    /\ probe = NoProbe
    /\ regs = NoRegs

Register ==
    \E user_data \in UserCreateSchemas :
        /\ nextId <= MaxUsers + 1
        /\ Cardinality(users) < MaxUsers \/ get_by_email(users, user_data.email) # {}
        /\ LET r == register(user_data, users, nextId) IN
            /\ users' = r.users
            /\ nextId' = r.nextId
            /\ last' = Request("register", user_data, now, nextJti, r.out)
        /\ UNCHANGED <<nextJti, now, ticks, probe, regs, db>>

\* uuid.uuid4() is modelled as a fresh number: nextJti, nextJti + 1, ...
Login ==
    \E credentials \in UserLoginSchemas :
        /\ nextJti <= MaxJti
        /\ LET out == login(credentials, users, now, nextJti, nextJti + 1) IN
            /\ last' = Request("login", credentials, now, nextJti, out)
            /\ nextJti' = nextJti + out.minted
        /\ UNCHANGED <<users, nextId, now, ticks, probe, regs, db>>

\* cookies a logout request may carry; the route reads none of them
LogoutCookieValues ==
    {AbsentCookie, GarbageToken,
     create_jwt("refresh", [sub |-> StrOf(1)], 0, RefreshTtl, 0)}

Logout ==
    \E access_token \in LogoutCookieValues, refresh_token \in LogoutCookieValues :
        /\ last' = Request("logout",
                           [access_token |-> access_token,
                            refresh_token |-> refresh_token],
                           now, nextJti, logout)
        /\ UNCHANGED <<users, nextId, nextJti, now, ticks, probe, regs, db>>

Resolve ==
    \E access_token \in CookieValues, refresh_token \in CookieValues :
        /\ nextJti <= MaxJti
        /\ LET out == current_user(access_token, refresh_token, users, now, nextJti) IN
            /\ last' = Request("resolve",
                               [access_token |-> access_token,
                                refresh_token |-> refresh_token],
                               now, nextJti, out)
            /\ nextJti' = nextJti + out.minted
        /\ UNCHANGED <<users, nextId, now, ticks, probe, regs, db>>

\* time passes: datetime.now(UTC) grows between requests
Tick ==
    \E d \in {AccessTtl, RefreshTtl} :
        /\ ticks < MaxTicks
        /\ now' = now + d
        /\ ticks' = ticks + 1
        /\ UNCHANGED <<users, nextId, nextJti, last, probe, regs, db>>

Next == Register \/ Login \/ Logout \/ Resolve \/ Tick

Spec == Init /\ [][Next]_vars

----------------------------------------------------------------------------
(* Cookie transport on its own: every configuration the constructor of     *)
(* CookieTransport accepts, and the two responses it builds.               *)

SameSitePolicies == {"lax", "strict", "none"}

OtherMaxAge == 3600

CookieTransports ==
    [cookie_name_access_token : {"access_token", "at"},
     cookie_name_refresh_token : {"refresh_token"},
     cookie_max_age : {cookie_max_age, OtherMaxAge},
     cookie_secure : BOOLEAN,
     cookie_httponly : BOOLEAN,
     cookie_samesite_access_token : SameSitePolicies,
     cookie_samesite_refresh_token : SameSitePolicies]

\* [status, cookies] of the Response
get_login_response(ct, access_token, refresh_token) ==
    [status |-> HTTP_204,
     cookies |-> set_login_cookies(ct, access_token, refresh_token)]

get_logout_response(ct) ==
    [status |-> HTTP_204, cookies |-> set_logout_cookies(ct)]

TransportTokens ==
    {create_jwt(tt, [sub |-> StrOf(1)], 0, TtlOf(tt), 0) : tt \in TokenTypes}

InitTransport ==
    /\ users = {}
    /\ db = NoItems
    /\ nextId = 1
    /\ nextJti = 1
    /\ now = 0
    /\ ticks = 0
    /\ last = Request("none", NoInput, 0, 1, Ok(0, NoIdentity, <<>>, 0, 0))
    /\ regs = NoRegs
    /\ \E ct \in CookieTransports :
          probe = [op |-> "none", ct |-> ct,
                   response |-> [status |-> 0, cookies |-> <<>>]]

GetLoginResponse ==
    \E access_token \in TransportTokens, refresh_token \in TransportTokens :
        /\ probe' = [op |-> "login", ct |-> probe.ct,
                     response |-> get_login_response(probe.ct, access_token,
                                                     refresh_token)]
        /\ UNCHANGED <<users, nextId, nextJti, now, ticks, last, regs, db>>

GetLogoutResponse ==
    /\ probe' = [op |-> "logout", ct |-> probe.ct,
                 response |-> get_logout_response(probe.ct)]
    /\ UNCHANGED <<users, nextId, nextJti, now, ticks, last, regs, db>>

NextTransport == GetLoginResponse \/ GetLogoutResponse

SpecTransport == InitTransport /\ [][NextTransport]_vars

----------------------------------------------------------------------------
(* Token codec on its own: a token is made by encode_jwt or create_jwt,    *)
(* the clock advances, and decode_jwt reads the token back.                *)

MaxClock == 4
MaxTtl == 2

\* expire_minutes / expire_timedelta of encode_jwt
CodecTtls == 1..MaxTtl

\* fields reserved by the codec
ReservedClaims == {"exp", "iat", "jti"}

\* token_data: the shapes token.py passes, and dicts that bring their own
\* type, exp, iat or jti
CodecPayloads ==
    {[sub |-> StrOf(1)],
     [sub |-> StrOf(2), display_name |-> "Ann", email |-> "a@x.io"],
     [sub |-> StrOf(1), type |-> "custom"],
     [sub |-> StrOf(1), jti |-> 0],
     [sub |-> StrOf(1), exp |-> 0],
     [sub |-> StrOf(1), iat |-> 0]}

NotDecoded == [ok |-> FALSE, payload |-> NoPayload]

\* the token under study: who made it from what, when, and the last decode
Probe(op, by, token_type, token_data, ttl, iat, token, at, decoded) ==
    [op |-> op, by |-> by, token_type |-> token_type, token_data |-> token_data,
     ttl |-> ttl, iat |-> iat, token |-> token, at |-> at, decoded |-> decoded]

InitCodec ==
    /\ users = {}
    /\ db = NoItems
    /\ nextId = 1
    /\ nextJti = 1
    /\ now = 0
    /\ ticks = 0
    /\ last = Request("none", NoInput, 0, 1, Ok(0, NoIdentity, <<>>, 0, 0))
    /\ regs = NoRegs
    /\ probe = Probe("none", "none", "none", NoPayload, 0, 0, AbsentCookie, 0,
                     NotDecoded)

EncodeJwt ==
    \E payload \in CodecPayloads, ttl \in CodecTtls :
        /\ nextJti <= MaxJti
        /\ probe' = Probe("encode", "encode_jwt", "none", payload, ttl, now,
                          encode_jwt(payload, now, ttl, nextJti), now, NotDecoded)
        /\ nextJti' = nextJti + 1
        /\ UNCHANGED <<users, nextId, now, ticks, last, regs, db>>

CreateJwt ==
    \E token_type \in TokenTypes, token_data \in CodecPayloads, ttl \in CodecTtls :
        /\ nextJti <= MaxJti
        /\ probe' = Probe("encode", "create_jwt", token_type, token_data, ttl, now,
                          create_jwt(token_type, token_data, now, ttl, nextJti),
                          now, NotDecoded)
        /\ nextJti' = nextJti + 1
        /\ UNCHANGED <<users, nextId, now, ticks, last, regs, db>>

\* the token is altered in transit: its signature no longer verifies
Tamper ==
    /\ probe.op = "encode"
    /\ probe.token.sig
    /\ probe' = [probe EXCEPT !.token.sig = FALSE]
    /\ UNCHANGED <<users, nextId, nextJti, now, ticks, last, regs, db>>

DecodeJwt ==
    /\ probe.op \in {"encode", "decode"}
    /\ probe' = [probe EXCEPT !.op = "decode", !.at = now,
                              !.decoded = decode_jwt(probe.token, now)]
    /\ UNCHANGED <<users, nextId, nextJti, now, ticks, last, regs, db>>

CodecTick ==
    /\ now < MaxClock
    /\ now' = now + 1
    /\ UNCHANGED <<users, nextId, nextJti, ticks, last, probe, regs, db>>

NextCodec == EncodeJwt \/ CreateJwt \/ Tamper \/ DecodeJwt \/ CodecTick

SpecCodec == InitCodec /\ [][NextCodec]_vars

----------------------------------------------------------------------------
(* Concurrent registration. AuthService.register awaits three times: the   *)
(* email pre-check, the INSERT with its flush, and the commit. Each        *)
(* request runs in its own session and transaction; a SELECT sees the      *)
(* committed rows, and the unique index on users.email makes an INSERT     *)
(* wait for an uncommitted row of the same email and fail once a row of    *)
(* that email is committed.                                                *)

MaxRequests == 2

Requests == 1..MaxRequests

NoUserData == [email |-> "", display_name |-> "", password |-> ""]

\* pc: "idle" | "checked" | "flushed" | "done"
\* insert: "none" | "ok" | "unique_violation"
\* row: the uncommitted row of the request's transaction
Registration(pc, user_data, insert, row, out) ==
    [pc |-> pc, user_data |-> user_data, insert |-> insert, row |-> row,
     out |-> out]

InitRace ==
    /\ users = {}
    /\ db = NoItems
    /\ nextId = 1
    /\ nextJti = 1
    /\ now = 0
    /\ ticks = 0
    /\ last = Request("none", NoInput, 0, 1, Ok(0, NoIdentity, <<>>, 0, 0))
    /\ probe = NoProbe
    /\ regs = [r \in Requests |->
                 Registration("idle", NoUserData, "none", {},
                              Ok(0, NoIdentity, <<>>, 0, 0))]

\* await self.__check_email(user_data.email)
RegCheckEmail(r) ==
    \E user_data \in UserCreateSchemas :
        /\ regs[r].pc = "idle"
        /\ regs' = [regs EXCEPT ![r] =
                IF check_email(users, user_data.email)
                THEN Registration("done", user_data, "none", {},
                         [bad_request("email already registered")
                            EXCEPT !.lookups = 1])
                ELSE Registration("checked", user_data, "none", {}, @.out)]
        /\ UNCHANGED <<users, nextId, nextJti, now, ticks, last, probe, db>>

\* an uncommitted row of another transaction holds the email
InsertWaits(r) ==
    \E q \in Requests \ {r} :
        /\ regs[q].pc = "flushed"
        /\ regs[q].user_data.email = regs[r].user_data.email

\* hash_password, then await self.provider_db.user.add(...): INSERT and flush
RegAdd(r) ==
    /\ regs[r].pc = "checked"
    /\ ~InsertWaits(r)
    /\ LET user_data == regs[r].user_data
           added == user_add(users, user_data,
                             hash_password(user_data.password), nextId)
       IN regs' = [regs EXCEPT ![r] =
                IF added.ok
                THEN Registration("flushed", user_data, "ok",
                                  added.users \ users, @.out)
                ELSE \* IntegrityError leaves register; the session is rolled back
                     Registration("done", user_data, "unique_violation", {},
                                  Unhandled("IntegrityError", 1))]
    /\ nextId' = nextId + 1
    /\ UNCHANGED <<users, nextJti, now, ticks, last, probe, db>>

\* await self.provider_db.session.commit()
RegCommit(r) ==
    /\ regs[r].pc = "flushed"
    /\ users' = users \cup regs[r].row
    /\ regs' = [regs EXCEPT ![r] =
            Registration("done", @.user_data, @.insert, {},
                         [Ok(HTTP_200, NoIdentity, <<>>, 1, 0)
                            EXCEPT !.committed = TRUE])]
    /\ UNCHANGED <<nextId, nextJti, now, ticks, last, probe, db>>

NextRace ==
    \E r \in Requests : RegCheckEmail(r) \/ RegAdd(r) \/ RegCommit(r)

SpecRace == InitRace /\ [][NextRace]_vars

----------------------------------------------------------------------------
(* Items (services/items.py over db/services_db/items).                    *)
(* db.items:     rows [id, user_id, title, status, is_deleted]             *)
(* db.tags:      rows [id, user_id, name], unique on (user_id, name)       *)
(* db.item_tags: bag of rows [item_id, tag_id]; the table has no unique    *)
(*               constraint, so a pair may be stored more than once        *)
(* kind, priority and notes are columns handled exactly like status.       *)

HTTP_201 == 201
HTTP_403 == 403
HTTP_404 == 404
HTTP_410 == 410

\* SARepository.get_many(limit=10): a SELECT without the argument returns at
\* most this many rows
get_many_limit == 10

\* ItemFilters.limit
filters_limit == 20

Range(seq) == {seq[k] : k \in 1..Len(seq)}

forbidden(detail) == AppError("Forbidden", HTTP_403, detail, <<>>, 0)
not_found(detail) == AppError("NotFound", HTTP_404, detail, <<>>, 0)

\* AppErrors.gone(...): the class has no attribute gone, so the expression
\* raises AttributeError before any HTTPException is built
gone(detail) == Unhandled("AttributeError", 0)

\* the tags an item is linked to
TagsOf(d, item_id) ==
    {t \in d.tags : CopiesIn([item_id |-> item_id, tag_id |-> t.id], d.item_tags) > 0}

NamesOf(tag_rows) == {t.name : t \in tag_rows}

\* ItemResponseSchema
ItemResponseSchema(d, item) ==
    [id |-> item.id, title |-> item.title, status |-> item.status,
     tags |-> NamesOf(TagsOf(d, item.id))]

\* outcome of an item request: body is the list of responses, of length one
\* for the routes that return one item;
\* unlinked, linked: tag ids whose links were deleted, added;
\* created: names of the tag rows inserted
ItemOk(status, body, unlinked, linked, created) ==
    [result |-> "ok", error |-> "none", status |-> status, detail |-> "",
     body |-> body, unlinked |-> unlinked, linked |-> linked,
     created |-> created, committed |-> TRUE]

ItemError(err) ==
    [result |-> "error", error |-> err.error, status |-> err.status,
     detail |-> err.detail, body |-> <<>>, unlinked |-> {}, linked |-> {},
     created |-> {}, committed |-> FALSE]

\* ItemServiceDB.add: INSERT and flush
item_add(d, user_id, item) ==
    [d EXCEPT !.items = @ \cup {[id |-> d.next_item, user_id |-> user_id,
                                 title |-> item.title, status |-> item.status,
                                 is_deleted |-> FALSE]},
              !.next_item = @ + 1]

item_get_by_id(d, item_id) == {i \in d.items : i.id = item_id}

\* ItemServiceDB.update: setattr for every key of data_update
item_update(d, item, data_update) ==
    [d EXCEPT !.items = (@ \ {item}) \cup {Merge(item, data_update)}]

\* TagServiceDB.get_existing_and_new_tags; get_many caps the existing rows.
\* capped = TRUE when more rows match than the SELECT returns.
get_existing_and_new_tags(d, user_id, tags) ==
    LET matching == {t \in d.tags : t.user_id = user_id /\ t.name \in Range(tags)}
    IN [capped |-> Cardinality(matching) > get_many_limit,
        existing_tags |-> matching,
        new_tag_names |-> SelectSeq(tags, LAMBDA name : name \notin NamesOf(matching))]

\* TagServiceDB.add and the flush of __add_tags: one row per name;
\* ok = FALSE is the IntegrityError of uq_user_id_name
tag_add(d, user_id, tags) ==
    LET rows == {[id |-> d.next_tag + k - 1, user_id |-> user_id, name |-> tags[k]] :
                    k \in 1..Len(tags)}
        clash == \/ \E j \in 1..Len(tags), k \in 1..Len(tags) :
                        j # k /\ tags[j] = tags[k]
                 \/ \E t \in d.tags : t.user_id = user_id /\ t.name \in Range(tags)
    IN [ok |-> ~clash,
        rows |-> rows,
        db |-> IF clash THEN [d EXCEPT !.next_tag = @ + Len(tags)]
               ELSE [d EXCEPT !.tags = @ \cup rows, !.next_tag = @ + Len(tags)]]

\* ItemService.__add_tags: find or create the user's tags
add_tags(d, user_id, tags) ==
    LET split == get_existing_and_new_tags(d, user_id, tags) IN
    IF split.capped
    THEN \* a row the SELECT left out counts as new and is inserted again
         [ok |-> FALSE, result_tags |-> {}, created |-> {},
          db |-> [d EXCEPT !.next_tag =
                    @ + Len(split.new_tag_names)
                      + Cardinality(split.existing_tags) - get_many_limit]]
    ELSE IF split.new_tag_names # <<>>
    THEN LET added == tag_add(d, user_id, split.new_tag_names)
         IN [ok |-> added.ok,
             result_tags |-> split.existing_tags \cup added.rows,
             created |-> Range(split.new_tag_names),
             db |-> added.db]
    ELSE [ok |-> TRUE, result_tags |-> split.existing_tags, created |-> {}, db |-> d]

\* ItemTagServiceDB.add: one link row per tag
item_tag_add(d, item_id, tag_rows) ==
    [d EXCEPT !.item_tags =
        @ (+) SetToBag({[item_id |-> item_id, tag_id |-> t.id] : t \in tag_rows})]

\* the link rows ItemTagServiceDB.delete may fetch: all that match, or any
\* get_many_limit of them when more match (the SELECT has no ORDER BY)
DeletableLinks(d, item_id, tags_id) ==
    LET matching == {l \in BagToSet(d.item_tags) :
                        l.item_id = item_id /\ l.tag_id \in tags_id}
    IN IF Cardinality(matching) <= get_many_limit
       THEN {matching}
       ELSE {S \in SUBSET matching : Cardinality(S) = get_many_limit}

\* ItemTagServiceDB.delete, given the rows its SELECT returned
item_tag_delete(d, fetched) ==
    [d EXCEPT !.item_tags =
        [l \in (DOMAIN @) \ fetched |-> @[l]]]

\* [out, db]; an exception rolls the session back (build_provider)
create_item(d, user_id, item) ==
    LET with_item == item_add(d, user_id, item)
        row == CHOOSE i \in with_item.items : i.id = d.next_item
    IN IF item.tags # <<>>
       THEN LET found == add_tags(with_item, user_id, item.tags) IN
            IF ~found.ok
            THEN [out |-> ItemError(Unhandled("IntegrityError", 0)),
                  db |-> d]
            ELSE LET linked == item_tag_add(found.db, row.id, found.result_tags)
                 IN [out |-> ItemOk(HTTP_201, <<ItemResponseSchema(linked, row)>>, {},
                                    {t.id : t \in found.result_tags}, found.created),
                     db |-> linked]
       ELSE [out |-> ItemOk(HTTP_201, <<ItemResponseSchema(with_item, row)>>, {}, {}, {}),
             db |-> with_item]

\* the outcome; get_item writes nothing and checks no owner
get_item(d, item_id) ==
    LET found == item_get_by_id(d, item_id) IN
    IF found = {}
    THEN ItemError(not_found("item not found"))
    ELSE LET item == CHOOSE i \in found : TRUE IN
         IF item.is_deleted
         THEN ItemError(gone("item deleted"))
         ELSE ItemOk(HTTP_200, <<ItemResponseSchema(d, item)>>, {}, {}, {})

\* [out, db]
soft_delete_item(d, item_id, user_id) ==
    LET found == item_get_by_id(d, item_id) IN
    IF found = {}
    THEN [out |-> ItemError(not_found("item not found")), db |-> d]
    ELSE LET item == CHOOSE i \in found : TRUE IN
         IF item.user_id # user_id
         THEN [out |-> ItemError(forbidden("item of another user")), db |-> d]
         ELSE IF item.is_deleted
         THEN [out |-> ItemError(gone("item already deleted")), db |-> d]
         ELSE LET updated == item_update(d, item, [is_deleted |-> TRUE])
              IN [out |-> ItemOk(HTTP_200,
                                 <<ItemResponseSchema(updated,
                                                    Merge(item, [is_deleted |-> TRUE]))>>,
                                 {}, {}, {}),
                  db |-> updated]

\* __create_update_data: the fields that differ
create_update_data(item, new_item) ==
    [k \in {f \in {"title", "status"} : item[f] # new_item[f]} |-> new_item[k]]

\* __compare_tags_simple: ids of the linked tags to unlink, names to link
compare_tags_simple(tags_old, tags_new) ==
    [tags_to_delete |-> {t.id : t \in {o \in tags_old : o.name \notin Range(tags_new)}},
     tags_to_add |-> SelectSeq(tags_new, LAMBDA name : name \notin NamesOf(tags_old))]

\* [out, db]; fetched: the link rows the SELECT of item_tag.delete returned
update_item(d, user_id, new_item, fetched) ==
    LET found == item_get_by_id(d, new_item.id) IN
    IF found = {}
    THEN [out |-> ItemError(not_found("item not found")), db |-> d]
    ELSE LET item == CHOOSE i \in found : TRUE IN
         IF item.user_id # user_id
         THEN [out |-> ItemError(forbidden("item of another user")), db |-> d]
         ELSE IF item.is_deleted
         THEN [out |-> ItemError(gone("item deleted")), db |-> d]
         ELSE LET update_data == create_update_data(item, new_item)
                  diff == compare_tags_simple(TagsOf(d, item.id), new_item.tags)
                  unlinked == IF diff.tags_to_delete # {}
                              THEN item_tag_delete(d, fetched) ELSE d
                  found_tags == IF diff.tags_to_add # <<>>
                                THEN add_tags(unlinked, user_id, diff.tags_to_add)
                                ELSE [ok |-> TRUE, result_tags |-> {},
                                      created |-> {}, db |-> unlinked]
              IN IF ~found_tags.ok
                 THEN [out |-> ItemError(Unhandled("IntegrityError", 0)),
                       db |-> d]
                 ELSE LET linked == item_tag_add(found_tags.db, item.id,
                                                 found_tags.result_tags)
                          updated == item_update(linked, item, update_data)
                      IN [out |-> ItemOk(HTTP_200,
                                         <<ItemResponseSchema(updated,
                                                            Merge(item, update_data))>>,
                                         {l.tag_id : l \in
                                            IF diff.tags_to_delete # {}
                                            THEN fetched ELSE {}},
                                         {t.id : t \in found_tags.result_tags},
                                         found_tags.created),
                          db |-> updated]

\* ORDER BY created_at: rows are created in id order, so the id stands for
\* the creation time
RECURSIVE OrderBy(_, _)
OrderBy(rows, sort_order) ==
    IF rows = {} THEN <<>>
    ELSE LET first == CHOOSE r \in rows : \A o \in rows :
                          IF sort_order = "asc" THEN r.id <= o.id ELSE r.id >= o.id
         IN <<first>> \o OrderBy(rows \ {first}, sort_order)

\* OFFSET offset LIMIT limit
Page(rows, offset, limit) ==
    SubSeq(rows, offset + 1,
           IF Len(rows) < offset + limit THEN Len(rows) ELSE offset + limit)

\* an ItemServiceDB.get_items that leaves deleted rows out only on request
item_get_items_include_deleted(d, filters) ==
    LET where == {i \in d.items :
                    /\ filters.include_deleted \/ i.is_deleted = FALSE
                    /\ filters.status # "none" => i.status = filters.status
                    /\ filters.tag_names # <<>> =>
                          \E t \in TagsOf(d, i.id) : t.name \in Range(filters.tag_names)}
    IN Page(OrderBy(where, filters.sort_order), filters.offset, filters.limit)

\* ItemServiceDB.get_items; status stands for the equality filters
\* (status, kind, priority), which are built the same way
item_get_items(d, filters) ==
    LET where == {i \in d.items :
                    /\ i.is_deleted = FALSE
                    /\ filters.status # "none" => i.status = filters.status
                    /\ filters.tag_names # <<>> =>
                          \E t \in TagsOf(d, i.id) : t.name \in Range(filters.tag_names)}
    IN Page(OrderBy(where, filters.sort_order), filters.offset, filters.limit)

\* ItemService.get_items: the filters carry no user, and include_deleted is
\* not passed on
get_items(d, filters) ==
    LET items == item_get_items(d, filters)
    IN ItemOk(HTTP_200,
              [k \in 1..Len(items) |-> ItemResponseSchema(d, items[k])],
              {}, {}, {})

\* Requests offered to the item service.
MaxItems == 2

\* one tag more than a SELECT without a limit argument returns; the validator
\* allows MAX_TAGS_COUNT = 20
OverLimit == get_many_limit + 1

\* tag names as the validator leaves them: stripped, distinct, of a valid
\* length ("tag1", "tag2", ...)
TagNames == [k \in 1..OverLimit |-> <<"tag", k>>]
TagLists == {<<>>, <<TagNames[2]>>}

ItemCreateSchemas ==
    {[title |-> "Dune", status |-> "planned", tags |-> <<TagNames[1]>>],
     [title |-> "Emma", status |-> "done", tags |-> <<>>]}

ItemUpdateSchemas ==
    {[id |-> id, title |-> "Emma", status |-> "planned", tags |-> tags] :
        id \in 1..MaxItems, tags \in TagLists}

\* ItemFilters with its defaults
DefaultFilters ==
    [status |-> "none", tag_names |-> <<>>, include_deleted |-> FALSE,
     sort_order |-> "desc", offset |-> 0, limit |-> filters_limit]

ItemFiltersSet ==
    {DefaultFilters,
     [DefaultFilters EXCEPT !.status = "planned"],
     [DefaultFilters EXCEPT !.tag_names = <<TagNames[1]>>],
     [DefaultFilters EXCEPT !.include_deleted = TRUE],
     [DefaultFilters EXCEPT !.sort_order = "asc", !.offset = 1],
     [DefaultFilters EXCEPT !.limit = 1]}

InitItems ==
    /\ users = {}
    /\ db = NoItems
    /\ nextId = 1
    /\ nextJti = 1
    /\ now = 0
    /\ ticks = 0
    /\ last = Request("none", NoInput, 0, 1, ItemOk(0, <<>>, {}, {}, {}))
    /\ probe = NoProbe
    /\ regs = NoRegs

\* POST /item for the resolved user user_id
CreateItem ==
    \E user_id \in SubIds, item \in ItemCreateSchemas :
        /\ db.next_item <= MaxItems
        /\ LET r == create_item(db, user_id, item) IN
           /\ db' = r.db
           /\ last' = Request("create_item", [user_id |-> user_id, item |-> item],
                              now, nextJti, r.out)
        /\ UNCHANGED <<users, nextId, nextJti, now, ticks, probe, regs>>

\* GET /item/{item_id}: the route resolves no user
GetItem ==
    \E item_id \in 1..MaxItems :
        /\ last' = Request("get_item", [item_id |-> item_id],
                           now, nextJti, get_item(db, item_id))
        /\ UNCHANGED <<users, nextId, nextJti, now, ticks, probe, regs, db>>

\* GET /items sent by user_id: the route resolves no user
GetItems ==
    \E user_id \in SubIds, filters \in ItemFiltersSet :
        /\ last' = Request("get_items", [user_id |-> user_id, filters |-> filters],
                           now, nextJti, get_items(db, filters))
        /\ UNCHANGED <<users, nextId, nextJti, now, ticks, probe, regs, db>>

\* DELETE /item/{item_id} for the resolved user user_id
SoftDeleteItem ==
    \E user_id \in SubIds, item_id \in 1..MaxItems :
        /\ LET r == soft_delete_item(db, item_id, user_id) IN
           /\ db' = r.db
           /\ last' = Request("soft_delete_item",
                              [user_id |-> user_id, item_id |-> item_id],
                              now, nextJti, r.out)
        /\ UNCHANGED <<users, nextId, nextJti, now, ticks, probe, regs>>

\* PATCH /item for the resolved user user_id
UpdateItem ==
    \E user_id \in SubIds, new_item \in ItemUpdateSchemas :
        \E fetched \in DeletableLinks(db, new_item.id,
                           compare_tags_simple(TagsOf(db, new_item.id),
                                               new_item.tags).tags_to_delete) :
            /\ LET r == update_item(db, user_id, new_item, fetched) IN
               /\ db' = r.db
               /\ last' = Request("update_item",
                                  [user_id |-> user_id, item |-> new_item],
                                  now, nextJti, r.out)
            /\ UNCHANGED <<users, nextId, nextJti, now, ticks, probe, regs>>

NextItems ==
    \/ CreateItem
    \/ GetItem
    \/ GetItems
    \/ SoftDeleteItem
    \/ UpdateItem

SpecItems == InitItems /\ [][NextItems]_vars

\* One item with more tags than a SELECT without a limit argument returns.
MaxTaggedItems == 1

ManyTagLists == {<<>>, <<TagNames[1]>>, <<TagNames[2]>>, TagNames}

\* POST /item with OverLimit tags
CreateTaggedItem ==
    \E user_id \in SubIds :
        /\ db.next_item <= MaxTaggedItems
        /\ LET item == [title |-> "Dune", status |-> "planned", tags |-> TagNames]
               r == create_item(db, user_id, item)
           IN /\ db' = r.db
              /\ last' = Request("create_item", [user_id |-> user_id, item |-> item],
                                 now, nextJti, r.out)
        /\ UNCHANGED <<users, nextId, nextJti, now, ticks, probe, regs>>

\* PATCH /item that replaces the tags
UpdateItemTags ==
    \E user_id \in SubIds, id \in 1..MaxTaggedItems, tags \in ManyTagLists :
        LET new_item == [id |-> id, title |-> "Dune", status |-> "planned",
                         tags |-> tags]
        IN \E fetched \in DeletableLinks(db, id,
                              compare_tags_simple(TagsOf(db, id), tags).tags_to_delete) :
            /\ LET r == update_item(db, user_id, new_item, fetched) IN
               /\ db' = r.db
               /\ last' = Request("update_item",
                                  [user_id |-> user_id, item |-> new_item],
                                  now, nextJti, r.out)
            /\ UNCHANGED <<users, nextId, nextJti, now, ticks, probe, regs>>

NextItemTags ==
    \/ CreateTaggedItem
    \/ UpdateItemTags

SpecItemTags == InitItems /\ [][NextItemTags]_vars

----------------------------------------------------------------------------
(* Properties.                                                             *)

UsersWithEmail(email) == get_by_email(users, email)

\* the credentials of a login request match a stored user
CredentialsMatch(credentials) ==
    \E u \in UsersWithEmail(credentials.email) :
        validate_password(credentials.password, u.hashed_password)

\* the email of a login request is stored and the password does not verify
WrongPassword(credentials) ==
    \E u \in UsersWithEmail(credentials.email) :
        ~validate_password(credentials.password, u.hashed_password)

IsToken(value) == value.kind = "jwt"

\* C1: after a user has been registered, login with the same email and
\* password succeeds and its response sets an access_token and a
\* refresh_token cookie whose values are non-empty and differ.
C1_RegisterThenLoginSucceeds ==
    (last.op = "login" /\ CredentialsMatch(last.input)) =>
        /\ last.out.result = "ok"
        /\ Len(last.out.cookies) = 2
        /\ last.out.cookies[1].key = "access_token"
        /\ last.out.cookies[2].key = "refresh_token"
        /\ IsToken(last.out.cookies[1].value)
        /\ IsToken(last.out.cookies[2].value)
        /\ last.out.cookies[1].value # last.out.cookies[2].value

\* C2: a register request whose email is already stored fails with
\* BadRequest (400), leaves the users table as it was and commits nothing.
C2_DuplicateEmailRejected ==
    [][ ( /\ last' # last
          /\ last'.op = "register"
          /\ get_by_email(users, last'.input.email) # {} )
        => ( /\ last'.out.result = "error"
             /\ last'.out.error = "BadRequest"
             /\ last'.out.status = HTTP_400
             /\ ~last'.out.committed
             /\ users' = users ) ]_vars

C2_Witness ==
    /\ last.op = "register"
    /\ last.out.error = "BadRequest"
    /\ UsersWithEmail(last.input.email) # {}
    /\ \A u \in UsersWithEmail(last.input.email) :
          u.display_name # last.input.display_name

\* C3: a login whose email is stored but whose password does not verify
\* fails with Unauthorized (401); no token is minted and no cookie is set.
C3_WrongPasswordRejected ==
    (last.op = "login" /\ WrongPassword(last.input)) =>
        /\ last.out.result = "error"
        /\ last.out.error = "Unauthorized"
        /\ last.out.status = HTTP_401
        /\ last.out.minted = 0
        /\ last.out.cookies = <<>>
        /\ last.out.discarded = <<>>

C3_Witness ==
    /\ last.op = "login"
    /\ WrongPassword(last.input)
    /\ last.out.error = "Unauthorized"

\* the resolver served the last request, with both cookies present
Resolved ==
    /\ last.op = "resolve"
    /\ last.input.access_token.kind # "absent"
    /\ last.input.refresh_token.kind # "absent"

AccessCookie == last.input.access_token
RefreshCookie == last.input.refresh_token

\* signature and expiry of the token verify at time t
DecodesAt(token, t) == decode_jwt(token, t).ok

\* a token that is present but expired, malformed or badly signed at time t
InvalidAt(token, t) == token.kind # "absent" /\ ~DecodesAt(token, t)

ValidRefreshAt(token, t) ==
    /\ DecodesAt(token, t)
    /\ token.payload["type"] = "refresh"
    /\ "sub" \in DOMAIN token.payload

ValidAccessAt(token, t) ==
    /\ DecodesAt(token, t)
    /\ token.payload["type"] = "access"
    /\ {"sub", "display_name", "email"} \subseteq DOMAIN token.payload

SubjectOf(token) == IntOf(token.payload["sub"])

IdentityOf(u) == [id |-> u.id, email |-> u.email, display_name |-> u.display_name]

DeletesCookie(cookies, key) ==
    \E i \in 1..Len(cookies) :
        /\ cookies[i].key = key
        /\ cookies[i].value = EmptyValue
        /\ cookies[i].max_age = 0

\* C4: rotation. With an expired or garbage access cookie and a valid
\* refresh token of a stored user, the resolver returns that user's identity
\* and sets one access_token cookie holding a valid access token of that user.
C4_RotationSetsNewAccessCookie ==
    ( /\ Resolved
      /\ InvalidAt(AccessCookie, last.at)
      /\ ValidRefreshAt(RefreshCookie, last.at)
      /\ get_by_id(users, SubjectOf(RefreshCookie)) # {} )
    => \E u \in get_by_id(users, SubjectOf(RefreshCookie)) :
          /\ last.out.result = "ok"
          /\ last.out.identity = IdentityOf(u)
          /\ Len(last.out.cookies) = 1
          /\ last.out.cookies[1].key = "access_token"
          /\ ValidAccessAt(last.out.cookies[1].value, last.at)
          /\ SubjectOf(last.out.cookies[1].value) = u.id

\* C5: deleted-user refresh. With an invalid access cookie and a valid
\* refresh token whose subject is not stored, the resolver fails with
\* Unauthorized and the delivered response deletes both cookies.
C5_DeletedUserClearsCookies ==
    ( /\ Resolved
      /\ InvalidAt(AccessCookie, last.at)
      /\ ValidRefreshAt(RefreshCookie, last.at)
      /\ get_by_id(users, SubjectOf(RefreshCookie)) = {} )
    => /\ last.out.result = "error"
       /\ last.out.error = "Unauthorized"
       /\ DeletesCookie(last.out.cookies, "access_token")
       /\ DeletesCookie(last.out.cookies, "refresh_token")

\* C6: an unexpired, validly signed token of type "access" in the refresh
\* cookie (the access cookie being invalid) is rejected with Unauthorized,
\* without a read of the users table and without minting a token.
C6_AccessTokenRejectedAsRefresh ==
    ( /\ Resolved
      /\ InvalidAt(AccessCookie, last.at)
      /\ DecodesAt(RefreshCookie, last.at)
      /\ RefreshCookie.payload["type"] = "access" )
    => /\ last.out.result = "error"
       /\ last.out.error = "Unauthorized"
       /\ last.out.lookups = 0
       /\ last.out.minted = 0

\* C7: an unexpired, validly signed token of type "refresh" in the access
\* cookie is not accepted on the fast path: the request ends as it would
\* with any invalid access cookie, by the decoding of the refresh cookie.
C7_RefreshTokenFallsThroughAsAccess ==
    ( /\ Resolved
      /\ DecodesAt(AccessCookie, last.at)
      /\ AccessCookie.payload["type"] = "refresh" )
    => last.out = get_user_by_token(GarbageToken, RefreshCookie, users,
                                    last.at, last.jti)

\* C8: when neither cookie decodes the resolver fails with Unauthorized
\* "Invalid refresh token", reads no user and sets no cookie.
C8_BothInvalidDetail ==
    ( /\ Resolved
      /\ InvalidAt(AccessCookie, last.at)
      /\ InvalidAt(RefreshCookie, last.at) )
    => /\ last.out.result = "error"
       /\ last.out.error = "Unauthorized"
       /\ last.out.status = HTTP_401
       /\ last.out.detail = "Invalid refresh token"
       /\ last.out.lookups = 0
       /\ last.out.cookies = <<>>

\* C9: fast path. A valid, unexpired access token in the access cookie
\* yields the identity written in its payload, with no read of the users
\* table, no cookie set and no token minted, whatever the users table and
\* the refresh cookie hold.
C9_FastPathFromPayload ==
    ( /\ Resolved
      /\ ValidAccessAt(AccessCookie, last.at) )
    => /\ last.out.result = "ok"
       /\ last.out.identity = [id |-> SubjectOf(AccessCookie),
                               email |-> AccessCookie.payload["email"],
                               display_name |-> AccessCookie.payload["display_name"]]
       /\ last.out.lookups = 0
       /\ last.out.minted = 0
       /\ last.out.cookies = <<>>
       /\ last.out.discarded = <<>>

C9_Witness ==
    /\ Resolved
    /\ ValidAccessAt(AccessCookie, last.at)
    /\ users # {}
    /\ get_by_id(users, SubjectOf(AccessCookie)) = {}
    /\ InvalidAt(RefreshCookie, last.at)
    /\ last.out.result = "ok"
    /\ last.out.identity.id = SubjectOf(AccessCookie)

\* C10: whatever the two cookies hold, the only error of the current-user
\* resolver is Unauthorized (401).
C10_OnlyUnauthorized ==
    (last.op = "resolve" /\ last.out.result = "error") =>
        /\ last.out.error = "Unauthorized"
        /\ last.out.status = HTTP_401

\* C11: a missing access cookie is not fatal. A request without an access
\* cookie but with a valid refresh token of a stored user is not rejected
\* before the resolver (that happens only when both cookies are absent): it
\* is resolved through the refresh path.
C11_MissingAccessCookieNotFatal ==
    ( /\ last.op = "resolve"
      /\ AccessCookie.kind = "absent"
      /\ ValidRefreshAt(RefreshCookie, last.at)
      /\ get_by_id(users, SubjectOf(RefreshCookie)) # {} )
    => \E u \in get_by_id(users, SubjectOf(RefreshCookie)) :
          /\ last.out.detail # "authentication required"
          /\ last.out.result = "ok"
          /\ last.out.identity = IdentityOf(u)
          /\ last.out.lookups = 1

\* what a client sees of a login response
Observable(out) ==
    [result |-> out.result, error |-> out.error, status |-> out.status,
     detail |-> out.detail, cookies |-> out.cookies, minted |-> out.minted]

UnknownEmail(credentials) == UsersWithEmail(credentials.email) = {}

\* C12: a login that fails for an unknown email and a login that fails for a
\* wrong password give the same error (Unauthorized, same status and detail),
\* and neither mints a token.
C12_LoginFailuresIndistinguishable ==
    \A other \in UserLoginSchemas :
        ( /\ last.op = "login"
          /\ \/ UnknownEmail(last.input) /\ WrongPassword(other)
             \/ WrongPassword(last.input) /\ UnknownEmail(other) )
        => /\ last.out.error = "Unauthorized"
           /\ last.out.minted = 0
           /\ Observable(last.out)
                = Observable(login(other, users, last.at, last.jti, last.jti + 1))

C12_Witness ==
    /\ last.op = "login"
    /\ UnknownEmail(last.input)
    /\ \E other \in UserLoginSchemas : WrongPassword(other)
    /\ last.out.error = "Unauthorized"

CookieAttributes(cookie) ==
    [key |-> cookie.key, path |-> cookie.path, secure |-> cookie.secure,
     httponly |-> cookie.httponly, samesite |-> cookie.samesite]

\* C14: for every CookieTransport configuration and each of the two
\* cookies, the logout response deletes the cookie under the name and with
\* the attributes (secure, httpOnly, sameSite of its token type, path) with
\* which the login response sets it.
C14_LogoutAttributesMatchLogin ==
    \A access_token \in TransportTokens, refresh_token \in TransportTokens :
        LET set == get_login_response(probe.ct, access_token, refresh_token).cookies
            del == get_logout_response(probe.ct).cookies
        IN ( /\ probe.op \in {"login", "logout"}
             /\ probe.response.cookies \in {set, del} )
           => /\ Len(set) = 2
              /\ Len(del) = 2
              /\ \A i \in 1..2 :
                    /\ CookieAttributes(del[i]) = CookieAttributes(set[i])
                    /\ del[i].value = EmptyValue
                    /\ del[i].max_age = 0
                    /\ set[i].max_age = probe.ct.cookie_max_age
              /\ set[1].samesite = probe.ct.cookie_samesite_access_token
              /\ set[2].samesite = probe.ct.cookie_samesite_refresh_token

\* a logout under a configuration that differs from the defaults everywhere
C14_Witness ==
    /\ probe.op = "logout"
    /\ probe.ct.cookie_name_access_token = "at"
    /\ ~probe.ct.cookie_secure
    /\ ~probe.ct.cookie_httponly
    /\ probe.ct.cookie_samesite_access_token = "none"
    /\ probe.ct.cookie_samesite_refresh_token = "lax"
    /\ probe.response.cookies[1].key = "at"
    /\ probe.response.cookies[1].samesite = "none"
    /\ probe.response.cookies[2].samesite = "lax"

\* C15: a successful login (the credentials match a stored user) mints
\* exactly one access and one refresh token and answers 204 with exactly two
\* cookies: the access cookie under the access sameSite policy, the refresh
\* cookie under the refresh sameSite policy, both with the configured
\* httpOnly, secure and maxAge.
C15_LoginMintsTwoTokensSetsTwoCookies ==
    (last.op = "login" /\ CredentialsMatch(last.input)) =>
        LET ct == cookie_transport
            cookies == last.out.cookies
        IN /\ last.out.minted = 2
           /\ last.out.status = HTTP_204
           /\ Len(cookies) = 2
           /\ cookies[1].key = ct.cookie_name_access_token
           /\ cookies[1].value.payload["type"] = "access"
           /\ cookies[1].samesite = ct.cookie_samesite_access_token
           /\ cookies[2].key = ct.cookie_name_refresh_token
           /\ cookies[2].value.payload["type"] = "refresh"
           /\ cookies[2].samesite = ct.cookie_samesite_refresh_token
           /\ \A i \in 1..2 :
                 /\ cookies[i].httponly = ct.cookie_httponly
                 /\ cookies[i].secure = ct.cookie_secure
                 /\ cookies[i].max_age = ct.cookie_max_age

\* C16: scenario over time. After a login, the resolver run with the two
\* issued cookies before the access-token TTL has elapsed succeeds; run
\* again with the same two cookies after the access-token TTL and before
\* the refresh-token TTL it succeeds with the same identity and its response
\* carries a new access_token cookie whose value differs from the issued one.
C16_LoginResolveRotateScenario ==
    (last.op = "login" /\ CredentialsMatch(last.input)) =>
        /\ Len(last.out.cookies) = 2
        /\ LET access_token == last.out.cookies[1].value
               refresh_token == last.out.cookies[2].value
               early == last.at + AccessTtl - 1
               late == last.at + AccessTtl + 1
               first == current_user(access_token, refresh_token, users,
                                     early, last.jti + 2)
               second == current_user(access_token, refresh_token, users,
                                      late, last.jti + 2)
           IN /\ late < last.at + RefreshTtl
              /\ first.result = "ok"
              /\ second.result = "ok"
              /\ second.identity = first.identity
              /\ \E i \in 1..Len(second.cookies) :
                    /\ second.cookies[i].key = "access_token"
                    /\ IsToken(second.cookies[i].value)
                    /\ second.cookies[i].value # access_token

\* a decode of an untampered token was the last step of the codec
DecodedIntact == probe.op = "decode" /\ probe.token.sig

ExpOf(token) == token.payload["exp"]

\* C17 as stated: decode_jwt fails once the clock is past the token's exp
\* (exp = issue time + ttl) and succeeds at every clock value from the issue
\* time up to and including exp, the signature being intact.
C17_ValidThroughExp ==
    DecodedIntact =>
        /\ ExpOf(probe.token) = probe.iat + probe.ttl
        /\ probe.at > ExpOf(probe.token) => ~probe.decoded.ok
        /\ ( probe.iat <= probe.at /\ probe.at <= ExpOf(probe.token) )
             => probe.decoded.ok

\* C17 amended: decode_jwt fails at every clock value from exp on and
\* succeeds at every clock value from the issue time up to, not including,
\* exp (exp = issue time + ttl), the signature being intact.
C17_ValidBeforeExp ==
    DecodedIntact =>
        /\ ExpOf(probe.token) = probe.iat + probe.ttl
        /\ probe.at >= ExpOf(probe.token) => ~probe.decoded.ok
        /\ ( probe.iat <= probe.at /\ probe.at < ExpOf(probe.token) )
             => /\ probe.decoded.ok
                /\ probe.decoded.payload = probe.token.payload

\* a token made by encode_jwt is decoded exactly at its exp
C17_Witness ==
    /\ DecodedIntact
    /\ probe.by = "encode_jwt"
    /\ probe.iat > 0
    /\ probe.at = ExpOf(probe.token)
    /\ ~probe.decoded.ok

\* a token of create_jwt decoded with the matching key before its expiry
RoundTrip ==
    /\ DecodedIntact
    /\ probe.by = "create_jwt"
    /\ probe.at < ExpOf(probe.token)

\* the decoded payload is token_data plus type, exp, iat and jti
ReturnsOriginalPlusClaims ==
    /\ probe.decoded.ok
    /\ DOMAIN probe.decoded.payload
         = DOMAIN probe.token_data \cup {"type"} \cup ReservedClaims
    /\ \A k \in DOMAIN probe.token_data :
          probe.decoded.payload[k] = probe.token_data[k]
    /\ probe.decoded.payload["type"] = probe.token_type

ExpiredAt(token, t) ==
    /\ token.kind = "jwt"
    /\ token.sig
    /\ ExpOf(token) <= t

\* C19: garbage and expired tokens are treated alike. With the other cookie
\* and the users table fixed, the resolver run with an expired token in a
\* cookie slot ends exactly as it does with a garbage token in that slot:
\* same identity or same error status and detail, same cookies.
C19_ExpiredLikeGarbage ==
    Resolved =>
        /\ ExpiredAt(AccessCookie, last.at)
             => last.out = current_user(GarbageToken, RefreshCookie, users,
                                        last.at, last.jti)
        /\ ExpiredAt(RefreshCookie, last.at)
             => last.out = current_user(AccessCookie, GarbageToken, users,
                                        last.at, last.jti)

\* an expired refresh token of a stored user decides the outcome
C19_Witness ==
    /\ Resolved
    /\ AccessCookie = GarbageToken
    /\ ExpiredAt(RefreshCookie, last.at)
    /\ RefreshCookie.payload["type"] = "refresh"
    /\ get_by_id(users, SubjectOf(RefreshCookie)) # {}
    /\ last.out.error = "Unauthorized"
    /\ last.out.detail = "Invalid token"

\* request r passed the email pre-check and ended, while another request
\* registered the same email: both passed the pre-check before either commit
LostRace(r) ==
    /\ regs[r].pc = "done"
    /\ regs[r].insert # "none"
    /\ \E q \in Requests \ {r} :
          /\ regs[q].pc = "done"
          /\ regs[q].out.committed
          /\ regs[q].user_data.email = regs[r].user_data.email

\* C20: concurrent duplicate registration. When two register requests for
\* one email both pass the pre-check before either commits, the unique
\* constraint rejects the second insert and that request fails with
\* BadRequest (400) and no other error.
C20_RaceLoserGetsBadRequest ==
    \A r \in Requests :
        LostRace(r) =>
            /\ regs[r].insert = "unique_violation"
            /\ ~regs[r].out.committed
            /\ regs[r].out.error = "BadRequest"
            /\ regs[r].out.status = HTTP_400

\* C21: resolving the current user writes no server-side state. On every
\* path of the resolver the users table is unchanged and nothing is
\* committed; its only effects are cookies on a response.
C21_ResolveWritesNothing ==
    [][ ( /\ last' # last
          /\ last'.op = "resolve" )
        => ( /\ users' = users
             /\ nextId' = nextId
             /\ ~last'.out.committed ) ]_vars

\* the refresh path read the users table of a non-empty store
C21_Witness ==
    /\ Resolved
    /\ users # {}
    /\ ValidRefreshAt(RefreshCookie, last.at)
    /\ get_by_id(users, SubjectOf(RefreshCookie)) # {}
    /\ last.out.lookups = 1
    /\ ~last.out.committed

\* C24: every run of the resolver ends in exactly one of two terminal
\* states, resolved (an identity is returned) or unauthenticated
\* (Unauthorized is raised), never both; it reads the users table at most
\* once and sets at most one cookie.
C24_TwoTerminalStates ==
    Resolved =>
        /\ \/ /\ last.out.result = "ok"
              /\ last.out.error = "none"
              /\ last.out.identity # NoIdentity
           \/ /\ last.out.result = "error"
              /\ last.out.error = "Unauthorized"
              /\ last.out.identity = NoIdentity
        /\ last.out.lookups <= 1
        /\ Len(last.out.cookies) <= 1

\* the rotation path: the access cookie does not decode, the refresh cookie
\* holds a valid refresh token and its subject is stored
RotationPath ==
    /\ Resolved
    /\ InvalidAt(AccessCookie, last.at)
    /\ ValidRefreshAt(RefreshCookie, last.at)
    /\ get_by_id(users, SubjectOf(RefreshCookie)) # {}

\* C25: on the rotation path the identity comes from the user record read
\* at lookup time: its id is the subject of the refresh token, its email and
\* display name are the stored ones, and the newly minted access token
\* carries that subject, email and display name.
C25_RotationIdentityFromRecord ==
    RotationPath =>
        \E u \in get_by_id(users, SubjectOf(RefreshCookie)) :
            /\ last.out.result = "ok"
            /\ last.out.identity.id = SubjectOf(RefreshCookie)
            /\ last.out.identity.email = u.email
            /\ last.out.identity.display_name = u.display_name
            /\ last.out.minted = 1
            /\ Len(last.out.cookies) = 1
            /\ LET minted == last.out.cookies[1].value.payload
               IN /\ {"sub", "email", "display_name"} \subseteq DOMAIN minted
                  /\ minted["sub"] = StrOf(u.id)
                  /\ minted["email"] = u.email
                  /\ minted["display_name"] = u.display_name

\* the requests whose register returned a user
Registered == {r \in Requests : regs[r].pc = "done" /\ regs[r].out.committed}

\* C27: email uniqueness is an invariant of the users table. After any
\* interleaving of register requests, two that both passed the pre-check
\* included, no two stored users share an email, and every successful
\* register has added exactly one user.
C27_EmailUnique ==
    /\ \A u \in users : \A v \in users : u.email = v.email => u = v
    /\ Cardinality(users) = Cardinality(Registered)
    /\ \A r \in Registered :
          Cardinality({u \in users : u.email = regs[r].user_data.email}) = 1

\* two requests for one email passed the pre-check; one row is stored
C27_Witness ==
    /\ \E r \in Requests : LostRace(r) /\ regs[r].insert = "unique_violation"
    /\ Cardinality(users) = 1
    /\ Cardinality(Registered) = 1

\* C28: logout revokes nothing on the server. After a login followed by a
\* logout, the access and refresh tokens issued at that login, while not
\* expired, still resolve to the identity of the user who logged in.
C28_LogoutRevokesNothing ==
    (last.op = "login" /\ CredentialsMatch(last.input)) =>
        /\ last.out.result = "ok"
        /\ Len(last.out.cookies) = 2
        /\ logout.status = HTTP_204
        /\ LET access_token == last.out.cookies[1].value
               refresh_token == last.out.cookies[2].value
               after == current_user(access_token, refresh_token, users,
                                     last.at, last.jti + 2)
           IN /\ DecodesAt(access_token, last.at)
              /\ DecodesAt(refresh_token, last.at)
              /\ after.result = "ok"
              /\ \E u \in UsersWithEmail(last.input.email) :
                    after.identity = IdentityOf(u)

\* C29: silent rotation touches only the access cookie. On the rotation
\* path the resolver sets exactly one cookie, under the access cookie's name
\* and with the httpOnly, secure, maxAge and sameSite that login uses for
\* the access cookie; it never sets, replaces or deletes the refresh cookie.
C29_RotationTouchesOnlyAccessCookie ==
    RotationPath =>
        /\ Len(last.out.cookies) = 1
        /\ LET cookie == last.out.cookies[1]
               at_login == set_login_cookies(cookie_transport, cookie.value,
                                             RefreshCookie)[1]
           IN /\ cookie.key = cookie_transport.cookie_name_access_token
              /\ IsToken(cookie.value)
              /\ CookieAttributes(cookie) = CookieAttributes(at_login)
              /\ cookie.max_age = at_login.max_age
        /\ \A i \in 1..Len(last.out.discarded) :
              last.out.discarded[i].key # cookie_transport.cookie_name_refresh_token


\* the item a soft_delete_item or update_item request names
RequestedItemId(request) ==
    IF request.op = "update_item" THEN request.input.item.id
    ELSE request.input.item_id

\* the ids of the items in the body of a listing
ListedIds(request) == {request.out.body[k].id : k \in 1..Len(request.out.body)}

\* the link rows of an item, with their multiplicities
LinksOf(d, item_id) ==
    [l \in {m \in BagToSet(d.item_tags) : m.item_id = item_id} |->
        CopiesIn(l, d.item_tags)]

\* C22: the item listing returns only items of the current user: whatever the
\* store and the filters, no item whose user_id differs from the requesting
\* user's id is in the result of get_items.
C22_ListingOnlyOwnItems ==
    last.op = "get_items" =>
        \A i \in db.items :
            i.id \in ListedIds(last) => i.user_id = last.input.user_id

\* C23: soft_delete_item and update_item check not found, then ownership,
\* then deleted: a missing item fails with NotFound (404), an item of another
\* user with Forbidden (403) even when it is deleted, an own item that is
\* already soft-deleted with Gone (410); in each case the store is unchanged
\* and nothing is committed.
C23_CheckOrder ==
    [][last'.op \in {"soft_delete_item", "update_item"} =>
        LET found == item_get_by_id(db, RequestedItemId(last'))
            item == CHOOSE i \in found : TRUE
        IN /\ found = {} =>
                /\ last'.out.error = "NotFound"
                /\ last'.out.status = HTTP_404
                /\ ~last'.out.committed
                /\ db' = db
           /\ found # {} /\ item.user_id # last'.input.user_id =>
                /\ last'.out.error = "Forbidden"
                /\ last'.out.status = HTTP_403
                /\ ~last'.out.committed
                /\ db' = db
           /\ found # {} /\ item.user_id = last'.input.user_id /\ item.is_deleted =>
                /\ last'.out.error = "Gone"
                /\ last'.out.status = HTTP_410
                /\ ~last'.out.committed
                /\ db' = db]_vars

\* C26: after a successful update_item by the owner the tag names linked to
\* the item are the tag names of the request: links to other tags are removed,
\* tags the user lacks are created, links that stay are not duplicated, and
\* no tag row is deleted.
C26_TagReconciliation ==
    [][last'.op = "update_item" /\ last'.out.result = "ok" =>
        LET id == last'.input.item.id
            requested == Range(last'.input.item.tags)
        IN /\ NamesOf(TagsOf(db', id)) = requested
           /\ \A name \in requested :
                \E t \in db'.tags :
                    t.user_id = last'.input.user_id /\ t.name = name
           /\ \A l \in DOMAIN LinksOf(db', id) : LinksOf(db', id)[l] = 1
           /\ db.tags \subseteq db'.tags]_vars

====
